---- MODULE Spec2Model ----
(***************************************************************************)
(* ft_sipping: the animation controller of main() and the half-block       *)
(* rasterizer frame_to_ansi(), as state machines.                          *)
(*                                                                         *)
(*   Spec        the controller: cycles of sipping frames, one probe,      *)
(*               clinking frames and a commit, with the asynchronous       *)
(*               SIGINT handler and failures raised inside the try block.  *)
(*   RasterSpec  frame_to_ansi on bounded images and widths.               *)
(*   CapSpec     the validation and the capping of --width in main().      *)
(*   DecodeSpec  load_gif_frames() over a heap of image objects.           *)
(***************************************************************************)
EXTENDS Integers, Sequences, FiniteSets, TLC

(* ------------------------------ bounds -------------------------------- *)
MaxCount == 3
MaxFrames == 2
MaxRows == 2
MaxWidth == 2
MaxSrcW == 3
MaxSrcH == 4
MaxArgWidth == 20
MaxCols == 80
MaxGifFrames == 2

(* program constants *)
DefaultWidth == 18
AlphaThreshold == 30
MinWidth == 4
ReservedCols == 30
RestoreBackground == 2

VARIABLES
    count,          \* args.count
    total_frames,   \* len(sip_ansi)
    num_rows,       \* len(sip_ansi[0])
    pc,             \* position of main() in the session
    seq,            \* loop variable of the cycle loop
    i,              \* loop variable of the frame loops
    sent, received, times,
    interrupted,    \* the flag on_sigint sets
    handler,        \* installed SIGINT handler: "prev" or "on_sigint"
    log_count,
    up_amount,
    sip_text, clink_text,
    result,         \* last value returned by do_ping
    exc,            \* an exception is propagating out of the try block
    term,           \* the terminal: rows of cells and the cursor row
    events,         \* what the session did, in order: renders, probes, commits
    sigAt,          \* where main() was when SIGINT first arrived
    summary,        \* what the summary printed
    \* frame_to_ansi
    r_pc,           \* position of frame_to_ansi
    orig_w, orig_h, \* image.size
    width,          \* the target width
    height,
    pixels,         \* resized.load(): (x, y) -> (r, g, b, a)
    y, x,           \* loop variables
    parts, prev_fg, prev_bg, in_color,
    lines,
    \* the width option
    c_pc,           \* position of main() between parse_args and the cap
    requested,      \* --width as given on the command line
    args_width,     \* args.width
    term_cols,      \* shutil.get_terminal_size().columns
    max_width,
    \* load_gif_frames
    g_pc,           \* position of load_gif_frames
    n_frames,       \* img.n_frames
    gi,             \* its loop variable i
    img,            \* the open GIF: the frame seek() selected and its disposal
    heap,           \* the image objects, by identity
    canvas, new_canvas, frame,  \* locals: identities of image objects
    frames,         \* the list returned: identities of the snapshots
    hist            \* what seek() selected, frame by frame

ctlVars == <<count, total_frames, num_rows, pc, seq, i, sent, received, times,
             interrupted, handler, log_count, up_amount, sip_text,
             clink_text, result, exc, term, events, sigAt, summary>>

rasterVars == <<r_pc, orig_w, orig_h, width, height, pixels, y, x, parts,
                prev_fg, prev_bg, in_color, lines>>

capVars == <<c_pc, requested, args_width, term_cols, max_width>>

gifVars == <<g_pc, n_frames, gi, img, heap, canvas, new_canvas, frame, frames,
             hist>>

vars == <<ctlVars, rasterVars, capVars, gifVars>>

\* the variables a part of the program leaves alone
notCtl == <<rasterVars, capVars, gifVars>>
notRaster == <<ctlVars, capVars, gifVars>>
notCap == <<ctlVars, rasterVars, gifVars>>
notGif == <<ctlVars, rasterVars, capVars>>

(* ------------------------- terminal and output ------------------------ *)
\* One piece of output: an escape sequence, a newline or a run of text.
Tok(k, a, b) == [k |-> k, a |-> a, b |-> b]

HIDE_CURSOR == Tok("hide", 0, 0)
SHOW_CURSOR == Tok("show", 0, 0)
CLEAR_LINE == Tok("clr", 0, 0)
NL == Tok("nl", 0, 0)
Indent == Tok("  ", 0, 0)
Gap == Tok(" ", 0, 0)

Max2(a, b) == IF a >= b THEN a ELSE b

\* cursor_up(n): the sequence ESC[nA, or nothing when n <= 0
cursor_up(n) == IF n > 0 THEN <<Tok("up", n, 0)>> ELSE <<>>

Repeat(v, n) == [j \in 1..n |-> v]

RECURSIVE Flatten(_)
Flatten(ss) == IF ss = <<>> THEN <<>> ELSE Head(ss) \o Flatten(Tail(ss))

\* The terminal's reaction to one piece of output. t.rows are the rows of
\* cells, t.cur the cursor's row and t.col its column, t.shown the cursor's
\* visibility.
TermPut(t, op) ==
    LET row == t.rows[t.cur] IN
    CASE op.k = "up" -> [t EXCEPT !.cur = Max2(1, t.cur - op.a)]
      [] op.k = "nl" ->
            [t EXCEPT !.cur = t.cur + 1, !.col = 1,
                      !.rows = IF t.cur = Len(t.rows)
                               THEN Append(t.rows, <<>>) ELSE t.rows]
      [] op.k = "clr" ->
            [t EXCEPT !.rows[t.cur] = SubSeq(row, 1, Max2(0, t.col - 1))]
      [] op.k = "hide" -> [t EXCEPT !.shown = FALSE]
      [] op.k = "show" -> [t EXCEPT !.shown = TRUE]
      [] OTHER ->
            LET padded == row \o Repeat(Gap, t.col - 1 - Len(row)) IN
            [t EXCEPT !.col = t.col + 1,
                      !.rows[t.cur] =
                          IF t.col <= Len(padded)
                          THEN [padded EXCEPT ![t.col] = op]
                          ELSE Append(padded, op)]

RECURSIVE TermWrite(_, _)
TermWrite(t, out) ==
    IF out = <<>> THEN t ELSE TermWrite(TermPut(t, Head(out)), Tail(out))

\* sip_ansi[i], mir_ansi[i]: the rendered lines of frame i and of its mirror
sip_ansi(n, f) == [r \in 1..n |-> <<Tok("sip_ansi", f, r)>>]
mir_ansi(n, f) == [r \in 1..n |-> <<Tok("mir_ansi", f, r)>>]

\* display_sipping stepping over the log lines before the frame, not after it
display_sipping_skip_first(frame_lines, text, up, logs) ==
    cursor_up(up)
    \o Repeat(NL, logs)
    \o Flatten([r \in 1..Len(frame_lines) |->
                  <<Indent>> \o frame_lines[r] \o <<CLEAR_LINE, NL>>])
    \o <<Indent>> \o text \o <<CLEAR_LINE, NL>>

\* display_sipping with no clear-to-end-of-line
display_sipping_no_clear(frame_lines, text, up, logs) ==
    cursor_up(up)
    \o Flatten([r \in 1..Len(frame_lines) |->
                  <<Indent>> \o frame_lines[r] \o <<NL>>])
    \o Repeat(NL, logs)
    \o <<Indent>> \o text \o <<NL>>

\* display_sipping: the string it writes
display_sipping(frame_lines, text, up, logs) ==
    cursor_up(up)
    \o Flatten([r \in 1..Len(frame_lines) |->
                  <<Indent>> \o frame_lines[r] \o <<CLEAR_LINE, NL>>])
    \o Repeat(NL, logs)
    \o <<Indent>> \o text \o <<CLEAR_LINE, NL>>

\* display_clink writing its text right under the frame
display_clink_no_skip(orig_lines, mirror_lines, text, up, logs) ==
    LET rows == Max2(Len(orig_lines), Len(mirror_lines))
        left(r) == IF r <= Len(orig_lines) THEN orig_lines[r] ELSE <<>>
        right(r) == IF r <= Len(mirror_lines) THEN mirror_lines[r] ELSE <<>>
    IN cursor_up(up)
       \o Flatten([r \in 1..rows |->
                     <<Indent>> \o left(r) \o <<Gap>> \o right(r)
                     \o <<CLEAR_LINE, NL>>])
       \o <<Indent>> \o text \o <<CLEAR_LINE, NL>>

\* display_clink: the string it writes
display_clink(orig_lines, mirror_lines, text, up, logs) ==
    LET rows == Max2(Len(orig_lines), Len(mirror_lines))
        left(r) == IF r <= Len(orig_lines) THEN orig_lines[r] ELSE <<>>
        right(r) == IF r <= Len(mirror_lines) THEN mirror_lines[r] ELSE <<>>
    IN cursor_up(up)
       \o Flatten([r \in 1..rows |->
                     <<Indent>> \o left(r) \o <<Gap>> \o right(r)
                     \o <<CLEAR_LINE, NL>>])
       \o Repeat(NL, logs)
       \o <<Indent>> \o text \o <<CLEAR_LINE, NL>>

(* ------------------------------ the probe ----------------------------- *)
TimesMs == {12, 250}
TIMED_OUT == 1

\* the values do_ping can return
PingResults ==
    { [success |-> TRUE, time_ms |-> t, ttl |-> 64, error |-> 0] : t \in TimesMs }
    \cup { [success |-> FALSE, time_ms |-> 0, ttl |-> 0, error |-> TIMED_OUT] }

NoResult == [success |-> FALSE, time_ms |-> 0, ttl |-> 0, error |-> 0]

\* len(str(n)) for n >= 1
RECURSIVE Digits(_)
Digits(n) == IF n < 10 THEN 1 ELSE 1 + Digits(n \div 10)

\* f"Sip-ping #{seq + 1}..." and its length
SipText(s) == <<Tok("Sip-ping #", s + 1, 0)>>
SipTextLen(s) == 10 + Digits(s + 1) + 3

\* sep: " " * max(1, width + 1 - len(sip_text))
SepLen(w, s) == Max2(1, w + 1 - SipTextLen(s))

ClinkText(s, res) ==
    SipText(s) \o <<Tok("sep", SepLen(DefaultWidth, s), 0)>>
    \o IF res.success THEN <<Tok("Clink!", res.time_ms, res.ttl)>>
                      ELSE <<Tok("Spill!", res.error, 0)>>

(* ------------------------------ summary ------------------------------- *)
\* format(n / d, ".0f"): round to nearest, ties to even
RoundHalfEven(n, d) ==
    LET q == n \div d
        r == n % d
    IN IF 2 * r < d THEN q
       ELSE IF 2 * r > d THEN q + 1
       ELSE IF q % 2 = 0 THEN q ELSE q + 1

RECURSIVE SumSeq(_)
SumSeq(s) == IF s = <<>> THEN 0 ELSE Head(s) + SumSeq(Tail(s))

SeqMin(s) == CHOOSE v \in {s[j] : j \in 1..Len(s)} : \A j \in 1..Len(s) : v <= s[j]
SeqMax(s) == CHOOSE v \in {s[j] : j \in 1..Len(s)} : \A j \in 1..Len(s) : v >= s[j]

\* loss: ((sent - received) / sent * 100) if sent > 0 else 0, printed with .0f
Loss(s, r) == IF s > 0 THEN RoundHalfEven((s - r) * 100, s) ELSE 0

NoSummary == [printed |-> FALSE, sent |-> 0, received |-> 0, loss |-> 0,
              has_times |-> FALSE, min |-> 0, avg |-> 0, max |-> 0]

MakeSummary(s, r, ts) ==
    [printed |-> TRUE, sent |-> s, received |-> r, loss |-> Loss(s, r),
     has_times |-> ts # <<>>,
     min |-> IF ts # <<>> THEN SeqMin(ts) ELSE 0,
     avg |-> IF ts # <<>> THEN RoundHalfEven(SumSeq(ts), Len(ts)) ELSE 0,
     max |-> IF ts # <<>> THEN SeqMax(ts) ELSE 0]

(* --------------------------- the controller --------------------------- *)
Ev(k, cyc, f, m, text) == [k |-> k, cyc |-> cyc, f |-> f, m |-> m, text |-> text]

\* sigAt: where main() was and how much it had done when SIGINT first arrived,
\* and whether one of its checks of the flag has found it set since
NoSig == [pc |-> "none", cyc |-> 0, n |-> 0, seen |-> FALSE]

Observe(s, flag) == IF flag THEN [s EXCEPT !.seen = TRUE] ELSE s

\* The terminal once the header is printed and num_rows + 1 lines are
\* reserved for the animation and the status text.
InitTerm(n) ==
    [rows |-> <<<<>>, <<Tok("header", 0, 0)>>, <<>>>> \o Repeat(<<>>, n + 2),
     cur |-> n + 5, col |-> 1, shown |-> TRUE]

CtlInit ==
    /\ count \in 1..MaxCount
    /\ total_frames \in 1..MaxFrames
    /\ num_rows \in 1..MaxRows
    /\ pc = "install"
    /\ seq = 0
    /\ i = 0
    /\ sent = 0
    /\ received = 0
    /\ times = <<>>
    /\ interrupted = FALSE
    /\ handler = "prev"
    /\ log_count = 0
    /\ up_amount = 0
    /\ sip_text = <<>>
    /\ clink_text = <<>>
    /\ result = NoResult
    /\ exc = FALSE
    /\ term = InitTerm(num_rows)
    /\ events = <<>>
    /\ sigAt = NoSig
    /\ summary = NoSummary

params == <<count, total_frames, num_rows>>

\* prev_handler = signal.getsignal(SIGINT); signal.signal(SIGINT, on_sigint)
InstallHandler ==
    /\ pc = "install"
    /\ handler' = "on_sigint"
    /\ pc' = "hide"
    /\ UNCHANGED <<notCtl, params, seq, i, sent, received, times,
                   interrupted, log_count, up_amount, sip_text, clink_text,
                   result, exc, term, events, sigAt, summary>>

\* sys.stdout.write(HIDE_CURSOR); log_count = 0; the try block is entered
HideCursor ==
    /\ pc = "hide"
    /\ term' = TermWrite(term, <<HIDE_CURSOR>>)
    /\ log_count' = 0
    /\ seq' = 0
    /\ pc' = "loop"
    /\ UNCHANGED <<notCtl, params, i, sent, received, times, interrupted,
                   handler, up_amount, sip_text, clink_text, result, exc,
                   events, sigAt, summary>>

\* on_sigint, run asynchronously whenever SIGINT arrives while it is installed
on_sigint ==
    /\ handler = "on_sigint"
    /\ interrupted' = TRUE
    /\ sigAt' = IF sigAt = NoSig
                THEN [pc |-> pc, cyc |-> seq + 1, n |-> Len(events),
                      seen |-> FALSE]
                ELSE sigAt
    /\ UNCHANGED <<notCtl, params, pc, seq, i, sent, received, times,
                   handler, log_count, up_amount, sip_text, clink_text,
                   result, exc, term, events, summary>>

\* for seq in range(count): exhausted
LoopExit ==
    /\ pc = "loop"
    /\ seq >= count
    /\ pc' = "finally"
    /\ UNCHANGED <<notCtl, params, seq, i, sent, received, times,
                   interrupted, handler, log_count, up_amount, sip_text,
                   clink_text, result, exc, term, events, sigAt, summary>>

\* if interrupted: break     (cycle start)
LoopBreak ==
    /\ pc = "loop"
    /\ seq < count
    /\ interrupted
    /\ pc' = "finally"
    /\ sigAt' = Observe(sigAt, TRUE)
    /\ UNCHANGED <<notCtl, params, seq, i, sent, received, times,
                   interrupted, handler, log_count, up_amount, sip_text,
                   clink_text, result, exc, term, events, summary>>

\* CycleStart with an up_amount that ignores the committed log lines
CycleStartFixedUp ==
    /\ pc = "loop"
    /\ seq < count
    /\ ~interrupted
    /\ sent' = sent + 1
    /\ up_amount' = num_rows + 1
    /\ sip_text' = SipText(seq)
    /\ i' = 0
    /\ pc' = "sip"
    /\ UNCHANGED <<notCtl, params, seq, received, times, interrupted,
                   handler, log_count, clink_text, result, exc, term, events,
                   sigAt, summary>>

\* CycleStart counting the cycle as sent only from the second one on
CycleStartLateSent ==
    /\ pc = "loop"
    /\ seq < count
    /\ ~interrupted
    /\ sent' = IF seq = 0 THEN sent ELSE sent + 1
    /\ up_amount' = num_rows + 1 + log_count
    /\ sip_text' = SipText(seq)
    /\ i' = 0
    /\ pc' = "sip"
    /\ UNCHANGED <<notCtl, params, seq, received, times, interrupted,
                   handler, log_count, clink_text, result, exc, term, events,
                   sigAt, summary>>

\* sent += 1; up_amount = num_rows + 1 + log_count; sip_text = ...
CycleStart ==
    /\ pc = "loop"
    /\ seq < count
    /\ ~interrupted
    /\ sent' = sent + 1
    /\ up_amount' = num_rows + 1 + log_count
    /\ sip_text' = SipText(seq)
    /\ i' = 0
    /\ pc' = "sip"
    /\ UNCHANGED <<notCtl, params, seq, received, times, interrupted,
                   handler, log_count, clink_text, result, exc, term, events,
                   sigAt, summary>>

\* for i in range(total_frames): if interrupted: break   (flag not set)
SipCheck ==
    /\ pc = "sip"
    /\ i < total_frames
    /\ ~interrupted
    /\ pc' = "sip_draw"
    /\ UNCHANGED <<notCtl, params, seq, i, sent, received, times,
                   interrupted, handler, log_count, up_amount, sip_text,
                   clink_text, result, exc, term, events, sigAt, summary>>

\* display_sipping(sip_ansi[i], sip_text, up_amount, log_count); sleep
SipRender ==
    /\ pc = "sip_draw"
    /\ pc' = "sip"
    /\ term' = TermWrite(term, display_sipping(sip_ansi(num_rows, i), sip_text,
                                               up_amount, log_count))
    /\ events' = Append(events, Ev("sip", seq + 1, i, i, sip_text))
    /\ i' = i + 1
    /\ UNCHANGED <<notCtl, params, seq, sent, received, times,
                   interrupted, handler, log_count, up_amount, sip_text,
                   clink_text, result, exc, sigAt, summary>>

\* SipEnd leaving the loop one frame early
SipEndEarly ==
    /\ pc = "sip"
    /\ i >= total_frames - 1 \/ interrupted
    /\ pc' = "post_sip"
    /\ UNCHANGED <<notCtl, params, seq, i, sent, received, times,
                   interrupted, handler, log_count, up_amount, sip_text,
                   clink_text, result, exc, term, events, sigAt, summary>>

\* the sipping loop ends: exhausted, or break on the flag
SipEnd ==
    /\ pc = "sip"
    /\ i >= total_frames \/ interrupted
    /\ pc' = "post_sip"
    /\ sigAt' = Observe(sigAt, i < total_frames)
    /\ UNCHANGED <<notCtl, params, seq, i, sent, received, times,
                   interrupted, handler, log_count, up_amount, sip_text,
                   clink_text, result, exc, term, events, summary>>

\* PostSip without the check of the flag
PostSipNoCheck ==
    /\ pc = "post_sip"
    /\ pc' = "probe"
    /\ UNCHANGED <<notCtl, params, seq, i, sent, received, times,
                   interrupted, handler, log_count, up_amount, sip_text,
                   clink_text, result, exc, term, events, sigAt, summary>>

\* if interrupted: break     (after the sipping loop)
PostSip ==
    /\ pc = "post_sip"
    /\ pc' = IF interrupted THEN "finally" ELSE "probe"
    /\ sigAt' = Observe(sigAt, interrupted)
    /\ UNCHANGED <<notCtl, params, seq, i, sent, received, times,
                   interrupted, handler, log_count, up_amount, sip_text,
                   clink_text, result, exc, term, events, summary>>

\* Probe counting every reply as received
ProbeCountsAll ==
    /\ pc = "probe"
    /\ \E res \in PingResults :
         /\ result' = res
         /\ received' = received + 1
         /\ times' = IF res.success THEN Append(times, res.time_ms) ELSE times
         /\ clink_text' = ClinkText(seq, res)
         /\ events' = Append(events,
                             Ev("probe", seq + 1, 0, 0, ClinkText(seq, res)))
    /\ i' = 0
    /\ pc' = "clink"
    /\ UNCHANGED <<notCtl, params, seq, sent, interrupted, handler,
                   log_count, up_amount, sip_text, exc, term, sigAt, summary>>

\* Probe ending the session when the probe fails
ProbeHaltsOnFailure ==
    /\ pc = "probe"
    /\ \E res \in PingResults :
         /\ result' = res
         /\ received' = IF res.success THEN received + 1 ELSE received
         /\ times' = IF res.success THEN Append(times, res.time_ms) ELSE times
         /\ clink_text' = ClinkText(seq, res)
         /\ events' = Append(events,
                             Ev("probe", seq + 1, 0, 0, ClinkText(seq, res)))
         /\ pc' = IF res.success THEN "clink" ELSE "finally"
    /\ i' = 0
    /\ UNCHANGED <<notCtl, params, seq, sent, interrupted, handler,
                   log_count, up_amount, sip_text, exc, term, sigAt, summary>>

\* Probe trying once more after a first failure in the cycle
ProbeRetriesOnce ==
    /\ pc = "probe"
    /\ \E res \in PingResults :
         /\ result' = res
         /\ received' = IF res.success THEN received + 1 ELSE received
         /\ times' = IF res.success THEN Append(times, res.time_ms) ELSE times
         /\ clink_text' = ClinkText(seq, res)
         /\ events' = Append(events,
                             Ev("probe", seq + 1, 0, 0, ClinkText(seq, res)))
         /\ pc' = IF /\ ~res.success
                     /\ \A p \in 1..Len(events) :
                          ~(events[p].k = "probe" /\ events[p].cyc = seq + 1)
                  THEN "probe" ELSE "clink"
    /\ i' = 0
    /\ UNCHANGED <<notCtl, params, seq, sent, interrupted, handler,
                   log_count, up_amount, sip_text, exc, term, sigAt, summary>>

\* result = do_ping(host); the counters and clink_text follow from it
Probe ==
    /\ pc = "probe"
    /\ \E res \in PingResults :
         /\ result' = res
         /\ received' = IF res.success THEN received + 1 ELSE received
         /\ times' = IF res.success THEN Append(times, res.time_ms) ELSE times
         /\ clink_text' = ClinkText(seq, res)
         /\ events' = Append(events,
                             Ev("probe", seq + 1, 0, 0, ClinkText(seq, res)))
    /\ i' = 0
    /\ pc' = "clink"
    /\ UNCHANGED <<notCtl, params, seq, sent, interrupted, handler,
                   log_count, up_amount, sip_text, exc, term, sigAt, summary>>

\* for i in range(total_frames): if interrupted: break   (flag not set)
ClinkCheck ==
    /\ pc = "clink"
    /\ i < total_frames
    /\ ~interrupted
    /\ pc' = "clink_draw"
    /\ UNCHANGED <<notCtl, params, seq, i, sent, received, times,
                   interrupted, handler, log_count, up_amount, sip_text,
                   clink_text, result, exc, term, events, sigAt, summary>>

\* display_clink(sip_ansi[i], mir_ansi[i], clink_text, up_amount, log_count)
ClinkRender ==
    /\ pc = "clink_draw"
    /\ pc' = "clink"
    /\ term' = TermWrite(term, display_clink(sip_ansi(num_rows, i),
                                             mir_ansi(num_rows, i), clink_text,
                                             up_amount, log_count))
    /\ events' = Append(events, Ev("clink", seq + 1, i, i, clink_text))
    /\ i' = i + 1
    /\ UNCHANGED <<notCtl, params, seq, sent, received, times,
                   interrupted, handler, log_count, up_amount, sip_text,
                   clink_text, result, exc, sigAt, summary>>

\* the clinking loop ends: exhausted, or break on the flag
ClinkEnd ==
    /\ pc = "clink"
    /\ i >= total_frames \/ interrupted
    /\ pc' = "post_clink"
    /\ sigAt' = Observe(sigAt, i < total_frames)
    /\ UNCHANGED <<notCtl, params, seq, i, sent, received, times,
                   interrupted, handler, log_count, up_amount, sip_text,
                   clink_text, result, exc, term, events, summary>>

\* PostClink without the check of the flag
PostClinkNoCheck ==
    /\ pc = "post_clink"
    /\ pc' = "commit"
    /\ UNCHANGED <<notCtl, params, seq, i, sent, received, times,
                   interrupted, handler, log_count, up_amount, sip_text,
                   clink_text, result, exc, term, events, sigAt, summary>>

\* if interrupted: break     (after the clinking loop)
PostClink ==
    /\ pc = "post_clink"
    /\ pc' = IF interrupted THEN "finally" ELSE "commit"
    /\ sigAt' = Observe(sigAt, interrupted)
    /\ UNCHANGED <<notCtl, params, seq, i, sent, received, times,
                   interrupted, handler, log_count, up_amount, sip_text,
                   clink_text, result, exc, term, events, summary>>

\* Commit counting two log lines
CommitCountsTwo ==
    /\ pc = "commit"
    /\ term' = TermWrite(term, <<NL>>)
    /\ log_count' = log_count + 2
    /\ events' = Append(events, Ev("commit", seq + 1, 0, 0, clink_text))
    /\ seq' = seq + 1
    /\ pc' = "loop"
    /\ UNCHANGED <<notCtl, params, i, sent, received, times, interrupted,
                   handler, up_amount, sip_text, clink_text, result, exc,
                   sigAt, summary>>

\* sys.stdout.write("\n"); log_count += 1; sleep(interval) between cycles
Commit ==
    /\ pc = "commit"
    /\ term' = TermWrite(term, <<NL>>)
    /\ log_count' = log_count + 1
    /\ events' = Append(events, Ev("commit", seq + 1, 0, 0, clink_text))
    /\ seq' = seq + 1
    /\ pc' = "loop"
    /\ UNCHANGED <<notCtl, params, i, sent, received, times, interrupted,
                   handler, up_amount, sip_text, clink_text, result, exc,
                   sigAt, summary>>

\* Raise with no finally clause around the loop
RaiseNoFinally ==
    /\ pc \in {"sip_draw", "clink_draw", "probe", "commit"}
    /\ exc' = TRUE
    /\ pc' = "raised"
    /\ UNCHANGED <<notCtl, params, seq, i, sent, received, times,
                   interrupted, handler, log_count, up_amount, sip_text,
                   clink_text, result, term, events, sigAt, summary>>

\* A render, the probe or the commit raises: control leaves the try block.
Raise ==
    /\ pc \in {"sip_draw", "clink_draw", "probe", "commit"}
    /\ exc' = TRUE
    /\ pc' = "finally"
    /\ UNCHANGED <<notCtl, params, seq, i, sent, received, times,
                   interrupted, handler, log_count, up_amount, sip_text,
                   clink_text, result, term, events, sigAt, summary>>

\* finally: write SHOW_CURSOR, reinstall prev_handler; a pending exception
\* then propagates out of main()
Finally ==
    /\ pc = "finally"
    /\ term' = TermWrite(term, <<SHOW_CURSOR>>)
    /\ handler' = "prev"
    /\ pc' = IF exc THEN "raised" ELSE "summary"
    /\ UNCHANGED <<notCtl, params, seq, i, sent, received, times,
                   interrupted, log_count, up_amount, sip_text, clink_text,
                   result, exc, events, sigAt, summary>>

\* the statistics printed after the loop
Summary ==
    /\ pc = "summary"
    /\ summary' = MakeSummary(sent, received, times)
    /\ pc' = "done"
    /\ UNCHANGED <<notCtl, params, seq, i, sent, received, times,
                   interrupted, handler, log_count, up_amount, sip_text,
                   clink_text, result, exc, term, events, sigAt>>

CtlNext ==
    \/ InstallHandler
    \/ HideCursor
    \/ on_sigint
    \/ LoopExit
    \/ LoopBreak
    \/ CycleStart
    \/ SipCheck
    \/ SipRender
    \/ SipEnd
    \/ PostSip
    \/ Probe
    \/ ClinkCheck
    \/ ClinkRender
    \/ ClinkEnd
    \/ PostClink
    \/ Commit
    \/ Raise
    \/ Finally
    \/ Summary

(* --------------------------- frame_to_ansi ---------------------------- *)
None == <<>>
RESET == [k |-> "reset", fg |-> None, bg |-> None]
Glyph(char) == [k |-> char, fg |-> None, bg |-> None]
\* ESC[38;2;r;g;b(;48;2;r;g;b)m
ColourSet(fg, bg) == [k |-> "set", fg |-> fg, bg |-> bg]

UPPER_HALF == "upper half block"
LOWER_HALF == "lower half block"
SPACE == " "

\* the pixel values an image is made of: below the alpha threshold, at it, opaque
Palette == {<<0, 0, 0, 29>>, <<255, 0, 0, 30>>, <<0, 0, 255, 255>>}
TransparentBlack == <<0, 0, 0, 0>>

RGB(p) == <<p[1], p[2], p[3]>>

\* height = int(width * orig_h / orig_w) without the parity fix
HeightNoParityFix(w, ow, oh) == (w * oh) \div ow

\* height = int(width * orig_h / orig_w); height += height % 2
Height(w, ow, oh) ==
    LET h == (w * oh) \div ow IN h + (h % 2)

\* the pixel pair of a column: character and required colours
Classify(p1, p2) ==
    LET a1 == p1[4]
        a2 == p2[4]
    IN IF a1 < AlphaThreshold /\ a2 < AlphaThreshold
       THEN [fg |-> None, bg |-> None, char |-> SPACE]
       ELSE IF a1 < AlphaThreshold
       THEN [fg |-> RGB(p2), bg |-> None, char |-> LOWER_HALF]
       ELSE IF a2 < AlphaThreshold
       THEN [fg |-> RGB(p1), bg |-> None, char |-> UPPER_HALF]
       ELSE [fg |-> RGB(p1), bg |-> RGB(p2), char |-> UPPER_HALF]

\* escape codes emitted on every column
ChangedAlways(cur, pfg, pbg) == TRUE

\* if cur_fg != prev_fg or cur_bg != prev_bg
Changed(cur, pfg, pbg) == cur.fg # pfg \/ cur.bg # pbg

\* Emit with no reset when the colour changes to none
EmitNoResetOnBlank(cur, pfg, pbg, inc) ==
    IF Changed(cur, pfg, pbg)
    THEN IF cur.fg = None
         THEN [out |-> <<Glyph(cur.char)>>, in_color |-> FALSE]
         ELSE [out |-> (IF inc THEN <<RESET>> ELSE <<>>)
                        \o <<ColourSet(cur.fg, cur.bg), Glyph(cur.char)>>,
               in_color |-> TRUE]
    ELSE [out |-> <<Glyph(cur.char)>>, in_color |-> inc]

\* what one column appends to parts, and in_color afterwards
Emit(cur, pfg, pbg, inc) ==
    IF Changed(cur, pfg, pbg)
    THEN IF cur.fg = None
         THEN [out |-> (IF inc THEN <<RESET>> ELSE <<>>) \o <<Glyph(cur.char)>>,
               in_color |-> FALSE]
         ELSE [out |-> (IF inc THEN <<RESET>> ELSE <<>>)
                        \o <<ColourSet(cur.fg, cur.bg), Glyph(cur.char)>>,
               in_color |-> TRUE]
    ELSE [out |-> <<Glyph(cur.char)>>, in_color |-> inc]

RasterInit ==
    /\ r_pc = "start"
    /\ orig_w \in 1..MaxSrcW
    /\ orig_h \in 1..MaxSrcH
    /\ width \in 1..MaxWidth
    /\ height = 0
    /\ pixels = <<>>
    /\ y = 0
    /\ x = 0
    /\ parts = <<>>
    /\ prev_fg = None
    /\ prev_bg = None
    /\ in_color = FALSE
    /\ lines = <<>>

\* frame_to_ansi is not running
RasterIdle ==
    /\ r_pc = "idle"
    /\ orig_w = 1
    /\ orig_h = 1
    /\ width = 1
    /\ height = 0
    /\ pixels = <<>>
    /\ y = 0
    /\ x = 0
    /\ parts = <<>>
    /\ prev_fg = None
    /\ prev_bg = None
    /\ in_color = FALSE
    /\ lines = <<>>

\* main() is not running
CtlIdle ==
    /\ count = 1
    /\ total_frames = 1
    /\ num_rows = 1
    /\ pc = "idle"
    /\ seq = 0
    /\ i = 0
    /\ sent = 0
    /\ received = 0
    /\ times = <<>>
    /\ interrupted = FALSE
    /\ handler = "prev"
    /\ log_count = 0
    /\ up_amount = 0
    /\ sip_text = <<>>
    /\ clink_text = <<>>
    /\ result = NoResult
    /\ exc = FALSE
    /\ term = InitTerm(1)
    /\ events = <<>>
    /\ sigAt = NoSig
    /\ summary = NoSummary

inputs == <<orig_w, orig_h, width>>

\* orig_w, orig_h = image.size; height = ...; height += height % 2
ComputeHeight ==
    /\ r_pc = "start"
    /\ height' = Height(width, orig_w, orig_h)
    /\ r_pc' = "resize"
    /\ UNCHANGED <<notRaster, inputs, pixels, y, x, parts, prev_fg, prev_bg,
                   in_color, lines>>

\* resized = image.resize((width, height), LANCZOS); pixels = resized.load().
\* The resampled pixels are any image of that size whose row pairs are alike.
Resize ==
    /\ r_pc = "resize"
    /\ height >= 1
    /\ \E top \in [0..(width - 1) -> Palette], bot \in [0..(width - 1) -> Palette] :
         pixels' = [xy \in (0..(width - 1)) \X (0..(height - 1)) |->
                      IF xy[2] % 2 = 0 THEN top[xy[1]] ELSE bot[xy[1]]]
    /\ lines' = <<>>
    /\ y' = 0
    /\ r_pc' = "line"
    /\ UNCHANGED <<notRaster, inputs, height, x, parts, prev_fg, prev_bg,
                   in_color>>

\* image.resize raises ValueError for an empty target size
ResizeFails ==
    /\ r_pc = "resize"
    /\ height < 1
    /\ r_pc' = "error"
    /\ UNCHANGED <<notRaster, inputs, height, pixels, y, x, parts, prev_fg,
                   prev_bg, in_color, lines>>

\* for y in range(0, height, 2): parts = []; prev_fg = prev_bg = None; ...
LineStart ==
    /\ r_pc = "line"
    /\ y < height
    /\ parts' = <<>>
    /\ prev_fg' = None
    /\ prev_bg' = None
    /\ in_color' = FALSE
    /\ x' = 0
    /\ r_pc' = "col"
    /\ UNCHANGED <<notRaster, inputs, height, pixels, y, lines>>

\* for x in range(width): one column of the row pair (y, y + 1)
Column ==
    /\ r_pc = "col"
    /\ x < width
    /\ LET p1 == pixels[<<x, y>>]
           p2 == IF y + 1 < height THEN pixels[<<x, y + 1>>]
                                   ELSE TransparentBlack
           cur == Classify(p1, p2)
           e == Emit(cur, prev_fg, prev_bg, in_color)
       IN /\ parts' = parts \o e.out
          /\ in_color' = e.in_color
          /\ prev_fg' = IF Changed(cur, prev_fg, prev_bg) THEN cur.fg ELSE prev_fg
          /\ prev_bg' = IF Changed(cur, prev_fg, prev_bg) THEN cur.bg ELSE prev_bg
    /\ x' = x + 1
    /\ UNCHANGED <<notRaster, inputs, r_pc, height, pixels, y, lines>>

\* LineEnd closing every line with a reset
LineEndAlwaysResets ==
    /\ r_pc = "col"
    /\ x >= width
    /\ LET line == Append(parts, RESET)
       IN /\ parts' = line
          /\ lines' = Append(lines, line)
    /\ y' = y + 2
    /\ r_pc' = "line"
    /\ UNCHANGED <<notRaster, inputs, height, pixels, x, prev_fg, prev_bg,
                   in_color>>

\* end of the line: a single reset if a colour is active; lines.append(...)
LineEnd ==
    /\ r_pc = "col"
    /\ x >= width
    /\ LET line == IF in_color THEN Append(parts, RESET) ELSE parts
       IN /\ parts' = line
          /\ lines' = Append(lines, line)
    /\ y' = y + 2
    /\ r_pc' = "line"
    /\ UNCHANGED <<notRaster, inputs, height, pixels, x, prev_fg, prev_bg,
                   in_color>>

\* return lines
Return ==
    /\ r_pc = "line"
    /\ y >= height
    /\ r_pc' = "done"
    /\ UNCHANGED <<notRaster, inputs, height, pixels, y, x, parts, prev_fg,
                   prev_bg, in_color, lines>>

RasterNext ==
    \/ ComputeHeight
    \/ Resize
    \/ ResizeFails
    \/ LineStart
    \/ Column
    \/ LineEnd
    \/ Return

(* -------------------------- the width option ------------------------- *)
\* args = parser.parse_args(): --width is any integer, 18 when not given
CapInit ==
    /\ c_pc = "validate"
    /\ requested \in 0..MaxArgWidth
    /\ args_width = requested
    /\ term_cols = 0
    /\ max_width = 0

\* this part of main() is not running
CapIdle ==
    /\ c_pc = "idle"
    /\ requested = DefaultWidth
    /\ args_width = DefaultWidth
    /\ term_cols = 0
    /\ max_width = 0

\* if args.width < 4: parser.error(...), which exits
Validate ==
    /\ c_pc = "validate"
    /\ c_pc' = IF args_width < MinWidth THEN "usage_error" ELSE "size"
    /\ UNCHANGED <<notCap, requested, args_width, term_cols, max_width>>

\* term_cols = shutil.get_terminal_size().columns;
\* max_width = (term_cols - 30) // 2
TerminalSize ==
    /\ c_pc = "size"
    /\ \E cols \in 1..MaxCols :
         /\ term_cols' = cols
         /\ max_width' = (cols - ReservedCols) \div 2
    /\ c_pc' = "cap"
    /\ UNCHANGED <<notCap, requested, args_width>>

\* CapWidth without the floor of 4
CapWidthNoFloor ==
    /\ c_pc = "cap"
    /\ args_width' = IF max_width > 0 /\ args_width > max_width
                     THEN max_width
                     ELSE args_width
    /\ c_pc' = "done"
    /\ UNCHANGED <<notCap, requested, term_cols, max_width>>

\* if max_width > 0 and args.width > max_width: args.width = max(4, max_width)
CapWidth ==
    /\ c_pc = "cap"
    /\ args_width' = IF max_width > 0 /\ args_width > max_width
                     THEN Max2(MinWidth, max_width)
                     ELSE args_width
    /\ c_pc' = "done"
    /\ UNCHANGED <<notCap, requested, term_cols, max_width>>

CapNext ==
    \/ Validate
    \/ TerminalSize
    \/ CapWidth

(* -------------------------- load_gif_frames --------------------------- *)
\* The pixel positions of img.size. paste() works position by position, so
\* two positions show every way two pixels can differ.
Positions == {"p", "q"}

\* A GIF frame is colour indexes into a palette; one index is transparent.
ColourIndexes == {"t", "a", "b"}
GifPalette == [t |-> <<255, 0, 0>>, a |-> <<255, 0, 0>>, b |-> <<0, 0, 255>>]
Disposals == {0, 1, 2, 3}

\* img.convert("RGBA"): palette colour, alpha 0 at the transparent index
ConvertRGBA(f) ==
    [ps \in Positions |->
        <<GifPalette[f[ps]][1], GifPalette[f[ps]][2], GifPalette[f[ps]][3],
          IF f[ps] = "t" THEN 0 ELSE 255>>]

\* Image.new("RGBA", img.size, (0, 0, 0, 0))
NewImage == [ps \in Positions |-> <<0, 0, 0, 0>>]

\* one band of paste() under a mask value: exact at mask 0 and 255
Blend(dst, src, mask) == (dst * (255 - mask) + src * mask) \div 255

\* im.paste(src, mask=m): every band of every pixel blended by m's alpha
Paste(im, src, m) ==
    [ps \in Positions |->
        <<Blend(im[ps][1], src[ps][1], m[ps][4]),
          Blend(im[ps][2], src[ps][2], m[ps][4]),
          Blend(im[ps][3], src[ps][3], m[ps][4]),
          Blend(im[ps][4], src[ps][4], m[ps][4])>>]

NoFrame == [frame |-> [ps \in Positions |-> "t"], disposal_method |-> 0]

GifInit ==
    /\ g_pc = "open"
    /\ n_frames \in 1..MaxGifFrames
    /\ gi = 0
    /\ img = NoFrame
    /\ heap = <<>>
    /\ canvas = 0
    /\ new_canvas = 0
    /\ frame = 0
    /\ frames = <<>>
    /\ hist = <<>>

\* load_gif_frames is not running
GifIdle ==
    /\ g_pc = "idle"
    /\ n_frames = 1
    /\ gi = 0
    /\ img = NoFrame
    /\ heap = <<>>
    /\ canvas = 0
    /\ new_canvas = 0
    /\ frame = 0
    /\ frames = <<>>
    /\ hist = <<>>

\* with Image.open(gif_path) as img: frames = []; canvas = Image.new(...)
Open ==
    /\ g_pc = "open"
    /\ frames' = <<>>
    /\ heap' = Append(heap, NewImage)
    /\ canvas' = Len(heap) + 1
    /\ g_pc' = "loop"
    /\ UNCHANGED <<notGif, n_frames, gi, img, new_canvas, frame, hist>>

\* for i in range(img.n_frames): img.seek(i)
Seek ==
    /\ g_pc = "loop"
    /\ gi < n_frames
    /\ \E f \in [Positions -> ColourIndexes], d \in Disposals :
         /\ img' = [frame |-> f, disposal_method |-> d]
         /\ hist' = Append(hist, [frame |-> f, disposal_method |-> d])
    /\ g_pc' = "convert"
    /\ UNCHANGED <<notGif, n_frames, gi, heap, canvas, new_canvas, frame,
                   frames>>

\* frame = img.convert("RGBA")
Convert ==
    /\ g_pc = "convert"
    /\ heap' = Append(heap, ConvertRGBA(img.frame))
    /\ frame' = Len(heap) + 1
    /\ g_pc' = "copy"
    /\ UNCHANGED <<notGif, n_frames, gi, img, canvas, new_canvas, frames,
                   hist>>

\* new_canvas = canvas.copy()
CopyCanvas ==
    /\ g_pc = "copy"
    /\ heap' = Append(heap, heap[canvas])
    /\ new_canvas' = Len(heap) + 1
    /\ g_pc' = "paste"
    /\ UNCHANGED <<notGif, n_frames, gi, img, canvas, frame, frames, hist>>

\* new_canvas.paste(frame, mask=frame)
PasteFrame ==
    /\ g_pc = "paste"
    /\ heap' = [heap EXCEPT ![new_canvas] =
                    Paste(heap[new_canvas], heap[frame], heap[frame])]
    /\ g_pc' = "append"
    /\ UNCHANGED <<notGif, n_frames, gi, img, canvas, new_canvas, frame,
                   frames, hist>>

\* frames.append(new_canvas.copy())
AppendFrame ==
    /\ g_pc = "append"
    /\ heap' = Append(heap, heap[new_canvas])
    /\ frames' = Append(frames, Len(heap) + 1)
    /\ g_pc' = "dispose"
    /\ UNCHANGED <<notGif, n_frames, gi, img, canvas, new_canvas, frame,
                   hist>>

\* Dispose keeping the canvas whatever the disposal method
DisposeAlwaysKeeps ==
    /\ g_pc = "dispose"
    /\ canvas' = new_canvas
    /\ heap' = heap
    /\ gi' = gi + 1
    /\ g_pc' = "loop"
    /\ UNCHANGED <<notGif, n_frames, img, new_canvas, frame, frames, hist>>

\* disposal = img.disposal_method; if disposal == 2: canvas = Image.new(...)
\* else: canvas = new_canvas
Dispose ==
    /\ g_pc = "dispose"
    /\ IF img.disposal_method = RestoreBackground
       THEN /\ heap' = Append(heap, NewImage)
            /\ canvas' = Len(heap) + 1
       ELSE /\ canvas' = new_canvas
            /\ heap' = heap
    /\ gi' = gi + 1
    /\ g_pc' = "loop"
    /\ UNCHANGED <<notGif, n_frames, img, new_canvas, frame, frames, hist>>

\* return frames
ReturnFrames ==
    /\ g_pc = "loop"
    /\ gi >= n_frames
    /\ g_pc' = "done"
    /\ UNCHANGED <<notGif, n_frames, gi, img, heap, canvas, new_canvas, frame,
                   frames, hist>>

GifNext ==
    \/ Open
    \/ Seek
    \/ Convert
    \/ CopyCanvas
    \/ PasteFrame
    \/ AppendFrame
    \/ Dispose
    \/ ReturnFrames

(* --------------------------- specifications --------------------------- *)
Init == CtlInit /\ RasterIdle /\ CapIdle /\ GifIdle
Next == CtlNext
Spec == Init /\ [][Next]_vars

RasterSpecInit == RasterInit /\ CtlIdle /\ CapIdle /\ GifIdle
RasterSpecNext == RasterNext
RasterSpec == RasterSpecInit /\ [][RasterSpecNext]_vars

CapSpecInit == CapInit /\ CtlIdle /\ RasterIdle /\ GifIdle
CapSpecNext == CapNext
CapSpec == CapSpecInit /\ [][CapSpecNext]_vars

DecodeSpecInit == GifInit /\ CtlIdle /\ RasterIdle /\ CapIdle
DecodeSpecNext == GifNext
DecodeSpec == DecodeSpecInit /\ [][DecodeSpecNext]_vars

TypeOK ==
    /\ pc \in {"install", "hide", "loop", "sip", "sip_draw", "post_sip",
               "probe", "clink", "clink_draw",
               "post_clink", "commit", "finally", "summary", "done", "raised",
               "idle"}
    /\ seq \in 0..count
    /\ i \in 0..total_frames
    /\ log_count \in 0..count


(* ----------------------- properties: controller ----------------------- *)
EventsOf(kinds, k) ==
    {p \in 1..Len(events) : events[p].k \in kinds /\ events[p].cyc = k}

Probes == {p \in 1..Len(events) : events[p].k = "probe"}
Commits == {p \in 1..Len(events) : events[p].k = "commit"}

IsSpill(text) == text # <<>> /\ text[Len(text)].k = "Spill!"
IsClink(text) == text # <<>> /\ text[Len(text)].k = "Clink!"

\* the terminal row that holds the j-th committed log line
LogRow(j) == term.rows[num_rows + 3 + j]

NoCancel == sigAt = NoSig

\* C1: if SIGINT first arrives during the Sipping phase of cycle k (after the
\* cycle-start check, before the check after the sipping loop), cycle k has no
\* probe, no clinking frame and no commit, no later cycle starts, and the
\* session ends with exactly k - 1 committed log lines.
C1_CancelDuringSipping ==
    sigAt.pc \in {"sip", "sip_draw", "post_sip"} =>
        /\ EventsOf({"probe", "clink", "commit"}, sigAt.cyc) = {}
        /\ \A p \in 1..Len(events) : events[p].cyc <= sigAt.cyc
        /\ pc \in {"sip", "sip_draw", "post_sip", "finally", "summary", "done",
                   "raised"}
        /\ log_count = sigAt.cyc - 1
        /\ Cardinality(Commits) = sigAt.cyc - 1

C1_Witness ==
    /\ pc = "done"
    /\ sigAt.pc = "sip_draw"
    /\ sigAt.cyc = 2
    /\ log_count = 1
    /\ EventsOf({"sip"}, 2) # {}

\* C2: with no cancellation the session ends with exactly count committed log
\* lines whatever the probes return; all probes succeeding gives received =
\* sent = count and 0% loss, all failing gives received = 0, sent = count,
\* 100% loss and a spill status on every committed line.
C2_FullRun ==
    (pc = "done" /\ NoCancel) =>
        /\ log_count = count
        /\ Cardinality(Commits) = count
        /\ summary.sent = count
        /\ (\A p \in Probes : IsClink(events[p].text)) =>
               /\ summary.received = count
               /\ summary.loss = 0
        /\ (\A p \in Probes : IsSpill(events[p].text)) =>
               /\ summary.received = 0
               /\ summary.loss = 100
               /\ \A j \in 1..count : IsSpill(LogRow(j))

C2_Witness ==
    /\ pc = "done"
    /\ NoCancel
    /\ count = 3
    /\ \A p \in Probes : IsSpill(events[p].text)
    /\ summary.loss = 100

\* C3: a failed probe does not halt the session: without cancellation, the
\* failed probe of cycle k is followed by all clinking frames of cycle k with
\* the spill status, then by the commit of cycle k, then (k < count) by the
\* first sipping frame of cycle k + 1; it counts in sent, not in received.
C3_SpillContinues ==
    (pc = "done" /\ NoCancel) =>
        /\ \A p \in Probes : ~IsClink(events[p].text) =>
             LET k == events[p].cyc IN
             /\ Len(events) >= p + total_frames + 1
             /\ \A f \in 0..(total_frames - 1) :
                  /\ events[p + 1 + f].k = "clink"
                  /\ events[p + 1 + f].cyc = k
                  /\ events[p + 1 + f].f = f
                  /\ IsSpill(events[p + 1 + f].text)
             /\ events[p + total_frames + 1].k = "commit"
             /\ events[p + total_frames + 1].cyc = k
             /\ IsSpill(LogRow(k))
             /\ k < count =>
                  /\ Len(events) >= p + total_frames + 2
                  /\ events[p + total_frames + 2].k = "sip"
                  /\ events[p + total_frames + 2].cyc = k + 1
        /\ sent = Cardinality(Probes)
        /\ received = Cardinality({p \in Probes : IsClink(events[p].text)})

C3_Witness ==
    /\ pc = "done"
    /\ NoCancel
    /\ count >= 2
    /\ \E p \in Probes : events[p].cyc = 1 /\ IsSpill(events[p].text)
    /\ \E p \in Probes : events[p].cyc = 2 /\ IsClink(events[p].text)

C5_StatsOverCompletedCycles ==
    pc = "done" =>
        /\ summary.sent = log_count
        /\ summary.received =
               Cardinality({p \in Probes : /\ IsClink(events[p].text)
                                           /\ events[p].cyc <= log_count})

\* C6: the probe is invoked at most once in any cycle, exactly once in every
\* cycle that commits, and never more often than cycles were started.
C6_ProbeOncePerCycle ==
    /\ \A k \in 1..count : Cardinality(EventsOf({"probe"}, k)) <= 1
    /\ \A p \in Commits :
           Cardinality(EventsOf({"probe"}, events[p].cyc)) = 1
    /\ Cardinality(Probes) <= sent

C6_Witness ==
    /\ pc = "done"
    /\ count = 3
    /\ Cardinality(Probes) = 3
    /\ \E p \in Probes : IsSpill(events[p].text)

\* C7: what the session does is a prefix of: for cycle 1, 2, ... the N sipping
\* frames in index order, one probe, the N clinking frames in index order
\* (frame f beside mirrored frame f, all with the status string the probe
\* produced), one commit; after a clinking render the animation rows of the
\* terminal show frame f beside mirrored frame f above that status string.
CycleLen == 2 * total_frames + 2

C7_CycleOrder ==
    \A p \in 1..Len(events) :
        LET e == events[p]
            o == (p - 1) % CycleLen
        IN /\ e.cyc = ((p - 1) \div CycleLen) + 1
           /\ o < total_frames => (e.k = "sip" /\ e.f = o)
           /\ o = total_frames => e.k = "probe"
           /\ (o > total_frames /\ o <= 2 * total_frames) =>
                  /\ e.k = "clink"
                  /\ e.f = o - total_frames - 1
                  /\ e.m = e.f
                  /\ e.text = events[p - (o - total_frames)].text
           /\ o = 2 * total_frames + 1 =>
                  (e.k = "commit" /\ e.text = events[p - 1].text)
           /\ (p = Len(events) /\ e.k = "clink") =>
                  /\ \A r \in 1..num_rows :
                         term.rows[3 + r] =
                             <<Indent, Tok("sip_ansi", e.f, r), Gap,
                               Tok("mir_ansi", e.f, r)>>
                  /\ term.rows[num_rows + 4 + log_count] = <<Indent>> \o e.text

C7_Witness ==
    /\ total_frames = 2
    /\ Len(events) = 2 * CycleLen
    /\ events[Len(events)].k = "commit"

\* C8: the committed-log-line counter starts at 0, changes only in the commit
\* step and then by exactly one, equals the number of commits made and never
\* exceeds count.
C8_LogCountMonotone ==
    /\ log_count = 0
    /\ [][log_count' # log_count =>
            /\ pc = "commit" /\ pc' = "loop"
            /\ log_count' = log_count + 1
            /\ Len(events') = Len(events) + 1
            /\ events'[Len(events')].k = "commit"]_vars
    /\ [](/\ log_count <= count
          /\ log_count = Cardinality(Commits)
          /\ Len(term.rows) = num_rows + 5 + log_count)

C8_Witness ==
    /\ pc = "done"
    /\ log_count = 3

CountOf(line, kind) == Cardinality({j \in 1..Len(line) : line[j].k = kind})

\* the last thing main() did to the terminal was a redraw
LastIsRedraw == events # <<>> /\ events[Len(events)].k \in {"sip", "clink"}
LastEvent == events[Len(events)]

\* the string the redraw recorded as event e wrote
Written(e) ==
    IF e.k = "sip"
    THEN display_sipping(sip_ansi(num_rows, e.f), e.text, up_amount, log_count)
    ELSE display_clink(sip_ansi(num_rows, e.f), mir_ansi(num_rows, e.m), e.text,
                       up_amount, log_count)

\* the row the first redraw puts the first line of the frame on
FirstAnimRow == InitTerm(num_rows).cur - (num_rows + 1)

\* the rows that show a line of a frame, and those that show a committed text
AnimRows ==
    {r \in 1..Len(term.rows) :
        \E c \in 1..Len(term.rows[r]) :
            term.rows[r][c].k \in {"sip_ansi", "mir_ansi"}}
CommittedRows ==
    {r \in 1..Len(term.rows) :
        \E p \in Commits : term.rows[r] = <<Indent>> \o events[p].text}

\* the text of the probe result of cycle j
ResultText(j) == events[CHOOSE p \in Probes : events[p].cyc = j].text

\* C13: every redraw, sipping or clinking, in every cycle, moves the cursor up
\* by exactly num_rows + 1 + log_count lines and writes exactly as many
\* newlines, so the cursor ends where it started, at the start of the line right
\* after the status text, and the first line of the frame is on the row the
\* first redraw put it on.
C13_RedrawDiscipline ==
    [][(Len(events') = Len(events) + 1
        /\ events'[Len(events')].k \in {"sip", "clink"}) =>
          LET e == events'[Len(events')]
              out == Written(e)
          IN /\ up_amount = num_rows + 1 + log_count
             /\ Head(out) = Tok("up", up_amount, 0)
             /\ CountOf(out, "up") = 1
             /\ CountOf(out, "nl") = up_amount
             /\ term' = TermWrite(term, out)
             /\ term.cur - up_amount = FirstAnimRow
             /\ term'.cur = term.cur
             /\ term'.col = 1
             /\ term'.rows[term'.cur - 1] = <<Indent>> \o e.text
             /\ SubSeq(term'.rows[FirstAnimRow], 1, 2)
                    = <<Indent, Tok("sip_ansi", e.f, 1)>>]_vars

C13_Witness ==
    /\ LastIsRedraw
    /\ LastEvent.k = "clink"
    /\ LastEvent.cyc = 2
    /\ log_count = 1
    /\ up_amount = num_rows + 2
    /\ term.cur = num_rows + 6

\* C14 as stated: in every redraw after one or more commits, all committed log
\* lines are on rows above the rows the frame is drawn on.
C14_LogAboveAnimation ==
    (LastIsRedraw /\ log_count >= 1) =>
        \A l \in CommittedRows, a \in AnimRows : l < a

\* C14 amended: as log_count grows the frame stays on the rows it was first
\* drawn on and the status text moves down; in every redraw after one or more
\* commits, all committed log lines are on rows below the rows of the frame and
\* above the row of the status text.
C14_LogBelowAnimation ==
    (LastIsRedraw /\ log_count >= 1) =>
        /\ AnimRows = FirstAnimRow..(FirstAnimRow + num_rows - 1)
        /\ Cardinality(CommittedRows) = log_count
        /\ \A l \in CommittedRows :
              /\ \A a \in AnimRows : a < l
              /\ l < term.cur - 1
        /\ term.rows[term.cur - 1] = <<Indent>> \o LastEvent.text

C14_Witness ==
    /\ LastIsRedraw
    /\ LastEvent.k = "sip"
    /\ LastEvent.cyc = 3
    /\ log_count = 2
    /\ Cardinality(CommittedRows) = 2

\* C15: after any redraw each row of the frame and the row of the status text
\* hold exactly what that redraw wrote there; in particular a sipping redraw
\* leaves nothing of the mirrored frame or of the longer clink/spill text of the
\* cycle before on those rows.
C15_RedrawErases ==
    LastIsRedraw =>
        LET e == LastEvent IN
        /\ \A r \in 1..num_rows :
              term.rows[FirstAnimRow + r - 1] =
                  IF e.k = "sip"
                  THEN <<Indent, Tok("sip_ansi", e.f, r)>>
                  ELSE <<Indent, Tok("sip_ansi", e.f, r), Gap,
                         Tok("mir_ansi", e.m, r)>>
        /\ term.rows[FirstAnimRow + num_rows + log_count] = <<Indent>> \o e.text

C15_Witness ==
    /\ LastIsRedraw
    /\ LastEvent.k = "sip"
    /\ LastEvent.cyc = 2
    /\ EventsOf({"clink"}, 1) # {}
    /\ Len(events[Len(events) - 1].text) > Len(LastEvent.text)
    /\ Len(term.rows[FirstAnimRow]) = 2

\* C17: whenever SIGINT arrives, main() performs at most one more step among
\* rendering a frame, probing and committing a log line before it leaves the
\* loop, and none at all once one of its checks has found the flag set.
C17_CancellationBound ==
    /\ [](sigAt # NoSig => Len(events) <= sigAt.n + 1)
    /\ [][sigAt.seen => events' = events]_vars
    /\ [](sigAt.seen => pc \in {"post_sip", "post_clink", "finally", "summary",
                                "done"})

C17_Witness ==
    /\ pc = "done"
    /\ sigAt.pc = "commit"
    /\ sigAt.seen
    /\ Len(events) = sigAt.n + 1
    /\ events[Len(events)].k = "commit"

\* C18: committed log lines are never modified: at any time the j-th committed
\* row holds the text of the probe result of cycle j, and no step changes a
\* committed row.
C18_LogLinesKept ==
    /\ [](\A j \in 1..log_count : LogRow(j) = <<Indent>> \o ResultText(j))
    /\ [][\A j \in 1..log_count :
            term'.rows[num_rows + 3 + j] = term.rows[num_rows + 3 + j]]_vars

C18_Witness ==
    /\ pc = "done"
    /\ NoCancel
    /\ log_count = count
    /\ count >= 3
    /\ EventsOf({"clink"}, 3) # {}
    /\ \E p \in Probes : events[p].cyc = 1 /\ IsSpill(events[p].text)
    /\ IsSpill(LogRow(1))

\* C20: in every reachable state log_count <= sent <= log_count + 1,
\* received <= sent <= count and received <= probes made <= sent; the summary
\* is computed without dividing by zero and its loss is within 0..100.
C20_Counters ==
    /\ log_count <= sent
    /\ sent <= log_count + 1
    /\ received <= sent
    /\ sent <= count
    /\ received <= Cardinality(Probes)
    /\ Cardinality(Probes) <= sent
    /\ summary.printed =>
          /\ summary.loss \in 0..100
          /\ summary.sent = 0 => summary.loss = 0
          /\ summary.sent > 0 =>
                summary.loss
                    = RoundHalfEven((summary.sent - summary.received) * 100,
                                    summary.sent)

C20_Witness ==
    /\ pc = "done"
    /\ summary.printed
    /\ sent = log_count + 1
    /\ received = Cardinality(Probes)
    /\ received = sent
    /\ received >= 2

(* ----------------------- properties: rasterizer ----------------------- *)
\* the integers nearest to n / d (both neighbours when n / d lies half way)
Nearest(n, d) ==
    LET q == n \div d
        r == n % d
    IN IF 2 * r < d THEN {q} ELSE IF 2 * r > d THEN {q + 1} ELSE {q, q + 1}

NextEven(h) == IF h % 2 = 0 THEN h ELSE h + 1

HeightComputed == r_pc \notin {"idle", "start"}

\* C9 as stated: the computed height is nextEven(round(W * H0 / W0)) and the
\* number of returned lines is height / 2.
C9_HeightRounded ==
    r_pc = "done" =>
        /\ \E r \in Nearest(width * orig_h, orig_w) : height = NextEven(r)
        /\ 2 * Len(lines) = height

\* C9, amended: the computed height is nextEven(floor(W * H0 / W0)), the
\* quotient truncated, not rounded; when frame_to_ansi returns, the number of
\* returned lines is height / 2.
C9_HeightTruncated ==
    /\ HeightComputed =>
           \E q \in 0..(width * orig_h) :
               /\ q * orig_w <= width * orig_h
               /\ width * orig_h < (q + 1) * orig_w
               /\ height = NextEven(q)
    /\ r_pc = "done" => 2 * Len(lines) = height

C9_Witness ==
    /\ r_pc = "done"
    /\ width = 2 /\ orig_w = 3 /\ orig_h = 4
    /\ height = 2
    /\ Len(lines) = 1

\* the colours a column requires, by the alpha threshold of 30 / 255
Opaque(p) == p[4] >= 30
Required(top, bottom) ==
    IF Opaque(top) /\ Opaque(bottom) THEN <<RGB(top), RGB(bottom)>>
    ELSE IF Opaque(top) THEN <<RGB(top), None>>
    ELSE IF Opaque(bottom) THEN <<RGB(bottom), None>>
    ELSE <<None, None>>

\* the requirement of column c of the row pair that line l renders
RequiredAt(l, c) ==
    LET yy == 2 * (l - 1) IN
    Required(pixels[<<c, yy>>],
             IF yy + 1 < height THEN pixels[<<c, yy + 1>>] ELSE TransparentBlack)

UniformColoured(l) ==
    /\ RequiredAt(l, 0)[1] # None
    /\ \A c \in 0..(width - 1) : RequiredAt(l, c) = RequiredAt(l, 0)

IsGlyph(t) == t.k \in {SPACE, UPPER_HALF, LOWER_HALF}


\* C10: a row pair whose columns all require the same coloured (fg, bg) gives
\* a line of one colour-set, then width glyphs, then one reset, and nothing
\* else; a fully opaque uniform 2 x 2 frame at width 2 gives exactly one such
\* line with 2 glyphs.
C10_UniformRow ==
    /\ \A l \in 1..Len(lines) : UniformColoured(l) =>
         /\ Len(lines[l]) = width + 2
         /\ lines[l][1] = ColourSet(RequiredAt(l, 0)[1], RequiredAt(l, 0)[2])
         /\ \A j \in 2..(width + 1) : IsGlyph(lines[l][j])
         /\ lines[l][width + 2] = RESET
         /\ CountOf(lines[l], "set") = 1
         /\ CountOf(lines[l], "reset") = 1
    /\ ( /\ r_pc = "done"
         /\ orig_w = 2 /\ orig_h = 2 /\ width = 2
         /\ \A xy \in DOMAIN pixels : pixels[xy] = <<0, 0, 255, 255>> ) =>
           /\ Len(lines) = 1
           /\ lines[1] = <<ColourSet(<<0, 0, 255>>, <<0, 0, 255>>),
                           Glyph(UPPER_HALF), Glyph(UPPER_HALF), RESET>>

C10_Witness ==
    /\ r_pc = "done"
    /\ orig_w = 2 /\ orig_h = 2 /\ width = 2
    /\ \A xy \in DOMAIN pixels : pixels[xy] = <<0, 0, 255, 255>>
    /\ Len(lines) = 1
    /\ UniformColoured(1)

\* what the column before column c of line l requires; nothing before the first
PrevRequired(l, c) == IF c = 0 THEN <<None, None>> ELSE RequiredAt(l, c - 1)

\* the columns of line l whose requirement differs from the column before
Transitions(l) ==
    {c \in 0..(width - 1) : RequiredAt(l, c) # PrevRequired(l, c)}

\* the columns at which a maximal run of one coloured (fg, bg) starts
ColouredRuns(l) == {c \in Transitions(l) : RequiredAt(l, c)[1] # None}

Escapes(line) == CountOf(line, "set") + CountOf(line, "reset")

\* colour-sets minus resets among the first j pieces of a line
Depth(line, j) ==
    CountOf(SubSeq(line, 1, j), "set") - CountOf(SubSeq(line, 1, j), "reset")

\* C16: the number of escape sequences (colour-sets plus resets) of a line is
\* at most twice the number of columns whose required (fg, bg) differs from
\* that of the column before, the first column being compared with unset.
C16_EscapeBound ==
    \A l \in 1..Len(lines) :
        /\ Escapes(lines[l]) <= 2 * Cardinality(Transitions(l))
        /\ Len(lines[l]) = width + Escapes(lines[l])

C16_Witness ==
    /\ r_pc = "done"
    /\ width = 2
    /\ Len(lines) >= 1
    /\ Cardinality(Transitions(1)) = 2
    /\ RequiredAt(1, 0)[1] # None
    /\ RequiredAt(1, 1)[1] # None
    /\ Escapes(lines[1]) = 4

\* C19: every line is colour-balanced: colour-sets and resets alternate
\* starting with a colour-set, there are as many of each as there are maximal
\* runs of columns with one coloured (fg, bg), every blank glyph is emitted
\* with no colour active and the line ends with no colour active.
C19_ColourBalanced ==
    \A l \in 1..Len(lines) :
        LET line == lines[l] IN
        /\ \A j \in 0..Len(line) : Depth(line, j) \in {0, 1}
        /\ \A j \in 1..Len(line) :
              /\ line[j].k = "set" => Depth(line, j - 1) = 0
              /\ line[j].k = "reset" => Depth(line, j - 1) = 1
              /\ line[j].k = SPACE => Depth(line, j) = 0
              /\ line[j].k \in {UPPER_HALF, LOWER_HALF} => Depth(line, j) = 1
        /\ Depth(line, Len(line)) = 0
        /\ CountOf(line, "set") = Cardinality(ColouredRuns(l))
        /\ CountOf(line, "reset") = Cardinality(ColouredRuns(l))

C19_Witness ==
    /\ r_pc = "done"
    /\ width = 2
    /\ Len(lines) >= 1
    /\ RequiredAt(1, 0)[1] # None
    /\ RequiredAt(1, 1)[1] = None
    /\ Len(lines[1]) = 4
    /\ lines[1][3] = RESET
    /\ lines[1][4] = Glyph(SPACE)

(* ---------------------- properties: width option --------------------- *)
\* the width the frames are rendered at, once main() is past the cap
Effective == c_pc = "done"

\* C12 as stated: for every requested width >= 4 and every terminal column
\* count, the effective width w satisfies 2 * w + 30 <= columns and w >= 4.
C12_FitsTerminal ==
    Effective =>
        /\ 2 * args_width + ReservedCols <= term_cols
        /\ args_width >= MinWidth

\* C12 amended: the effective width w is always at least 4 and at most the
\* requested width; it fits, 2 * w + 30 <= columns, whenever the terminal has
\* at least 38 columns, and then it is the largest such width not above the
\* requested one; with 32 to 37 columns w is 4 and with fewer than 32 columns
\* w is the requested width unchanged.
C12_FitsWideTerminal ==
    /\ c_pc \in {"size", "cap", "done"} => requested >= MinWidth
    /\ c_pc = "usage_error" => requested < MinWidth
    /\ Effective =>
        /\ args_width >= MinWidth
        /\ args_width <= requested
        /\ term_cols >= 2 * MinWidth + ReservedCols =>
              /\ 2 * args_width + ReservedCols <= term_cols
              /\ \/ args_width = requested
                 \/ 2 * (args_width + 1) + ReservedCols > term_cols
        /\ (term_cols >= ReservedCols + 2
            /\ term_cols < 2 * MinWidth + ReservedCols) =>
              args_width = MinWidth
        /\ term_cols < ReservedCols + 2 => args_width = requested

C12_Witness ==
    /\ Effective
    /\ requested = DefaultWidth
    /\ term_cols = 50
    /\ args_width = 10

(* ------------------------ properties: the decoder --------------------- *)
\* composited frame n as returned, source frame n as converted to RGBA
Composited(n) == heap[frames[n]]
Source(n) == ConvertRGBA(hist[n].frame)

\* the canvas frame n is pasted on: transparent for the first frame and after
\* a frame disposed with RestoreBackground, else the frame composited before
Carried(n) ==
    IF n = 1 \/ hist[n - 1].disposal_method = RestoreBackground
    THEN NewImage
    ELSE Composited(n - 1)

\* C11: for every frame n and pixel position, where source frame n has alpha
\* zero the composited frame n equals the canvas carried from frame n - 1
\* (transparent for the first frame or after RestoreBackground), and where the
\* alpha is not zero it is fully opaque and the composited frame equals the
\* source pixel; every disposal but RestoreBackground carries the composited
\* canvas forward unchanged; snapshots already returned are never altered.
C11_Compositing ==
    /\ [](\A n \in 1..Len(frames), ps \in Positions :
            /\ Source(n)[ps][4] = 0 => Composited(n)[ps] = Carried(n)[ps]
            /\ Source(n)[ps][4] # 0 =>
                  /\ Source(n)[ps][4] = 255
                  /\ Composited(n)[ps] = Source(n)[ps])
    /\ []((g_pc \in {"loop", "done"} /\ gi >= 1) =>
            heap[canvas] = IF hist[gi].disposal_method = RestoreBackground
                           THEN NewImage
                           ELSE Composited(gi))
    /\ [](g_pc = "done" => Len(frames) = n_frames)
    /\ [][\A n \in 1..Len(frames) :
            /\ frames'[n] = frames[n]
            /\ heap'[frames[n]] = heap[frames[n]]]_vars

C11_Witness ==
    /\ g_pc = "done"
    /\ Len(frames) = 2
    /\ hist[1].disposal_method = RestoreBackground
    /\ hist[1].frame["p"] = "b"
    /\ hist[1].frame["q"] = "b"
    /\ hist[2].frame["p"] = "t"
    /\ hist[2].frame["q"] = "a"
    /\ Composited(1)["p"] = <<0, 0, 255, 255>>
    /\ Composited(2)["p"] = <<0, 0, 0, 0>>
    /\ Composited(2)["q"] = <<255, 0, 0, 255>>

====
